---- MODULE Spec2Model ----
(***************************************************************************)
(* Station planning copilot (sara3004-tuppad/station_planning).            *)
(*                                                                         *)
(* Two parts are modelled:                                                 *)
(*   - the station sizing engine of src/src/indo/calculation.py            *)
(*     (CalculationService), as operators computed the way the code        *)
(*     computes them, over exact rationals with a NaN value;               *)
(*   - the per-turn conversation script of src/app.py, as a state machine  *)
(*     whose steps are separated by the blocking oracle calls.             *)
(*                                                                         *)
(* Floating point numbers are modelled as exact rationals [n, d] in lowest *)
(* terms with d > 0; d = 0 is NaN.  Python's round() is round-half-even,   *)
(* int() truncates towards zero.                                           *)
(***************************************************************************)
EXTENDS Integers, Sequences, FiniteSets, TLC

VARIABLES
    messages,             \* st.session_state.messages
    calculation_results,  \* st.session_state.calculation_results
    pc,                   \* position of the script within the current turn
    intent_response,      \* app.py local of the running turn
    oracle_text,          \* the text the latest oracle call of the turn returned
    entity_response,      \* app.py local: the entity map (ordered dict)
    missing_info,         \* app.py local: missing_info_messages
    confirmation_state,   \* app.py local
    response,             \* app.py local: payload of calculate_swap_stations
    calls,                \* the oracle/calculation calls made in this turn, in order
    sheet,                \* the spreadsheet as the last calculation found it
    turns,                \* number of turns started in this session
    turn_start,           \* the session state as the running turn found it
    auth                  \* st.session_state: authenticated, auth_token, auth_time

vars == <<messages, calculation_results, pc, intent_response, oracle_text, entity_response,
          missing_info, confirmation_state, response, calls, sheet, turns, turn_start, auth>>

(***************************************************************************)
(* Numbers                                                                 *)
(***************************************************************************)
Abs(x) == IF x < 0 THEN -x ELSE x

RECURSIVE GCD(_, _)
GCD(a, b) == IF b = 0 THEN a ELSE GCD(b, a % b)

\* The rational n/d in lowest terms, d # 0.
Rat(n, d) ==
    LET g == GCD(Abs(n), Abs(d))
        s == IF d < 0 THEN -1 ELSE 1
    IN  [n |-> (s * n) \div g, d |-> (s * d) \div g]

NaN == [n |-> 0, d |-> 0]
IsNaN(x) == x.d = 0
Zero == Rat(0, 1)
One == Rat(1, 1)
IntNum(i) == Rat(i, 1)

Add(x, y) == IF IsNaN(x) \/ IsNaN(y) THEN NaN ELSE Rat(x.n * y.d + y.n * x.d, x.d * y.d)
Sub(x, y) == IF IsNaN(x) \/ IsNaN(y) THEN NaN ELSE Rat(x.n * y.d - y.n * x.d, x.d * y.d)
Mul(x, y) == IF IsNaN(x) \/ IsNaN(y) THEN NaN ELSE Rat(x.n * y.n, x.d * y.d)
\* y is never zero where the code divides
Div(x, y) == IF IsNaN(x) \/ IsNaN(y) THEN NaN ELSE Rat(x.n * y.d, x.d * y.n)
\* x > 0 in Python: False for NaN
Positive(x) == ~IsNaN(x) /\ x.n > 0

Floor(x) == x.n \div x.d
\* int(x): truncation towards zero (x not NaN)
Trunc(x) == IF x.n >= 0 THEN x.n \div x.d ELSE -((-x.n) \div x.d)
Ceil(x) == -((-x.n) \div x.d)

\* nearest integer, ties to the even one (Python 3 round)
RoundHalfEven(x) ==
    LET q == Floor(x)
        r == x.n - q * x.d
    IN  IF 2 * r < x.d THEN q
        ELSE IF 2 * r > x.d THEN q + 1
        ELSE IF q % 2 = 0 THEN q ELSE q + 1

RECURSIVE Pow10(_)
Pow10(k) == IF k = 0 THEN 1 ELSE 10 * Pow10(k - 1)

\* round(x, ndigits) on a float: NaN stays NaN
PyRound(x, ndigits) ==
    IF IsNaN(x) THEN NaN
    ELSE Rat(RoundHalfEven(Mul(x, IntNum(Pow10(ndigits)))), Pow10(ndigits))

(***************************************************************************)
(* Strings, cells and dicts                                                *)
(***************************************************************************)
\* str.lower() and str.strip() on the strings of the model; every other
\* string of the model is already lowercase and has no surrounding blanks.
StrLower(s) ==
    CASE s = "Delhi" -> "delhi"
      [] s = "DELHI" -> "delhi"
      [] s = "Mumbai" -> "mumbai"
      [] s = " Mumbai " -> " mumbai "
      [] s = "Pune" -> "pune"
      [] s = "All" -> "all"
      [] OTHER -> s

StrStrip(s) ==
    CASE s = " Mumbai " -> "Mumbai"
      [] s = " mumbai " -> "mumbai"
      [] s = " delhi" -> "delhi"
      [] OTHER -> s

\* A spreadsheet cell is text: an integer numeral, a decimal numeral or
\* anything else (the empty cell included).
IntCell(i) == [t |-> "int", v |-> IntNum(i)]
DecCell(n, d) == [t |-> "dec", v |-> Rat(n, d)]
TxtCell(s) == [t |-> "txt", v |-> s]

\* pd.to_numeric(errors='coerce')
to_numeric(c) == IF c.t = "txt" THEN NaN ELSE c.v
fillna(x, dflt) == IF IsNaN(x) THEN dflt ELSE x

Range(f) == {f[i] : i \in DOMAIN f}

\* An insertion-ordered Python dict: a sequence of [k, v] with distinct keys.
EmptyDict == <<>>
DictKeys(d) == [i \in DOMAIN d |-> d[i].k]
DictHas(d, k) == \E i \in DOMAIN d : d[i].k = k
DictGet(d, k) == d[CHOOSE i \in DOMAIN d : d[i].k = k].v
\* d[k] = v: an existing key keeps its position and takes the new value
DictSet(d, k, v) ==
    IF DictHas(d, k)
    THEN [i \in DOMAIN d |-> IF d[i].k = k THEN [k |-> k, v |-> v] ELSE d[i]]
    ELSE Append(d, [k |-> k, v |-> v])

\* Python values held in a DataFrame row: a str or a number
PyStr(s) == [t |-> "str", v |-> s]
PyNum(x) == [t |-> "num", v |-> x]
Ok(v) == [ok |-> TRUE, val |-> v]
Raise(msg) == [ok |-> FALSE, err |-> msg]

(***************************************************************************)
(* CalculationService: the loaders                                         *)
(***************************************************************************)
\* A sheet: [reachable, fleet, h5, ref].  fleet is worksheet 0 as rows of a
\* grid: row 1 the header names, each later row <<city text, cell, ...>>.
\* h5 is cell H5 of worksheet 1 and ref its rows, each <<text, cell, cell>>.

ALL == <<"all">>

\* df = pd.DataFrame(values, columns=headers), numeric columns coerced with
\* NaN -> 0, 'City' stripped and lowercased: a row is a function over the
\* header names.
df_row(headers, raw) ==
    [h \in Range(headers) |->
        LET i == CHOOSE j \in DOMAIN headers : headers[j] = h
        IN  IF i = 1 THEN PyStr(StrLower(StrStrip(raw[1])))
            ELSE PyNum(fillna(to_numeric(raw[i]), Zero))]

\* mutant: the filter keeps the first matching row only
SelectRows_first_match(rows, cities) ==
    LET hits == SelectSeq(rows, LAMBDA r : r["City"].v \in Range(cities))
    IN  IF hits = <<>> THEN hits ELSE <<hits[1]>>

\* df[df['City'].isin(cities)]
SelectRows(rows, cities) == SelectSeq(rows, LAMBDA r : r["City"].v \in Range(cities))

get_vehicle_data_from_sheets(sh, cities) ==
    IF ~sh.reachable THEN Raise("APIError")
    ELSE IF Len(sh.fleet) < 2 THEN Raise("Insufficient data in Google Sheets")
    ELSE IF sh.fleet[1][1] # "City" THEN Raise("'City'")
    ELSE LET headers == sh.fleet[1]
             values == Tail(sh.fleet)
             df == [i \in DOMAIN values |-> df_row(headers, values[i])]
         IN  IF cities # ALL
             THEN LET filtered == SelectRows(df, cities)
                  IN  IF filtered = <<>>
                      THEN Raise("No matching cities found for")
                      ELSE Ok(filtered)
             ELSE Ok(df)

MARKER == "Vehicle Mix"
\* 'Vehicle Mix' in str(cell): the texts of the model that contain the marker
ContainsMarker(text) == text \in {MARKER, "Vehicle Mix (types)"}
HasMarker(row) == \E j \in DOMAIN row : row[j].t = "txt" /\ ContainsMarker(row[j].v)

\* index (0-based, as enumerate gives it) of the first marker row, or None
vehicle_start(rows) ==
    IF \E i \in DOMAIN rows : HasMarker(rows[i])
    THEN [none |-> FALSE,
          i |-> (CHOOSE i \in DOMAIN rows :
                    HasMarker(rows[i]) /\ \A j \in 1..(i - 1) : ~HasMarker(rows[j])) - 1]
    ELSE [none |-> TRUE, i |-> 0]

\* Python truthiness of vehicle_start: None and 0 are falsy
Truthy(x) == ~x.none /\ x.i # 0

RECURSIVE spec_dict(_)
\* vehicle_df.set_index(first column).to_dict('index')
spec_dict(rows) ==
    IF rows = <<>> THEN <<>>
    ELSE (rows[1][1].v :> [km |-> to_numeric(rows[1][2]), wh |-> to_numeric(rows[1][3])])
         @@ spec_dict(Tail(rows))

UniqueIndex(rows) == \A i, j \in DOMAIN rows : rows[i][1].v = rows[j][1].v => i = j

REF_ERROR == "Failed to retrieve swappable energy per station from Google Sheets"

get_swappable_energy_per_station_and_vehicle_mix(sh) ==
    IF ~sh.reachable THEN Raise(REF_ERROR)
    ELSE LET start == vehicle_start(sh.ref)
         IN  IF ~Truthy(start) THEN Raise(REF_ERROR)  \* vehicle_df is unbound at the return
             ELSE LET vehicle_data == SubSeq(sh.ref, start.i + 1, Len(sh.ref))
                      vehicle_rows == SelectSeq(Tail(vehicle_data), LAMBDA r : r[1] # TxtCell(""))
                  IN  IF ~UniqueIndex(vehicle_rows) THEN Raise(REF_ERROR)
                      ELSE Ok([swapable_energy |-> sh.h5, vehicle_specs |-> spec_dict(vehicle_rows)])

(***************************************************************************)
(* CalculationService: the sizing engine                                   *)
(***************************************************************************)
PERCENT == 100
WH_PER_KWH == 1000
UTIL == "station_utilization_percentage"
OFFROAD == "off_road_vehicle_percentage"

RECURSIVE SumOver(_, _)
\* sum of f[k] over the keys k of S
SumOver(f, S) ==
    IF S = {} THEN Zero
    ELSE LET k == CHOOSE x \in S : TRUE
         IN  Add(f[k], SumOver(f, S \ {k}))

\* for vehicle_type in vehicle_specs: if vehicle_type not in city_row: continue
energy_types(city_row, vehicle_specs) == DOMAIN vehicle_specs \cap DOMAIN city_row

\* mutant: the off-road vehicles are not taken out
energy_required_all_vehicles(count, specs, off_road_percent) ==
    Div(Mul(Mul(count, specs.km), specs.wh), IntNum(WH_PER_KWH))

\* energy of one vehicle type, in kWh
energy_required(count, specs, off_road_percent) ==
    LET effective_vehicles == Mul(count, Sub(One, off_road_percent))
    IN  Div(Mul(Mul(effective_vehicles, specs.km), specs.wh), IntNum(WH_PER_KWH))

calculate_city_energy_demand(city_row, vehicle_specs, off_road_percent) ==
    LET types == energy_types(city_row, vehicle_specs)
    IN  IF \E vt \in types : city_row[vt].t = "str"
        THEN Raise("can't multiply sequence by non-int of type 'float'")
        ELSE Ok(SumOver([vt \in types |->
                            energy_required(city_row[vt].v, vehicle_specs[vt], off_road_percent)],
                        types))

\* int(swappable_energy_per_station) on the text of cell H5
PyInt(cell) == IF cell.t = "int" THEN Ok(cell.v) ELSE Raise("invalid literal for int()")

\* mutant: only the first vehicle column is counted
total_vehicles_first_type(row) == row["scooter"].v

\* sum(value for value in row.to_dict().values() if isinstance(value, (int, float)))
total_vehicles(row) ==
    LET numeric == {h \in DOMAIN row : row[h].t = "num"}
    IN  SumOver([h \in numeric |-> row[h].v], numeric)

\* mutant: the utilization guard accepts zero and negative utilizations
stations_quotient_unguarded(total_energy_required, swappable_energy_per_station, station_utilization_percentage) ==
    IF Positive(swappable_energy_per_station) /\ ~IsNaN(station_utilization_percentage)
    THEN Div(total_energy_required,
             Mul(swappable_energy_per_station, station_utilization_percentage))
    ELSE Zero

stations_quotient(total_energy_required, swappable_energy_per_station, station_utilization_percentage) ==
    IF Positive(swappable_energy_per_station) /\ Positive(station_utilization_percentage)
    THEN Div(total_energy_required,
             Mul(swappable_energy_per_station, station_utilization_percentage))
    ELSE Zero

\* mutant: the quotient is stored as it is
stations_result_unrounded(stations_required) == stations_required

\* mutant: the quotient is rounded up
stations_result_ceiling(stations_required) ==
    IF IsNaN(stations_required) THEN NaN ELSE IntNum(Ceil(stations_required))

\* the value stored under "stations_required" in a result row
stations_result(stations_required) == PyRound(stations_required, 0)

\* the parameters of one row: entities.get(key).get(field) / 100
city_params(entities, cities, city) ==
    LET key == IF cities # ALL THEN city ELSE "all"
    IN  IF ~DictHas(entities, key)   \* entities.get(key) is None
        THEN Raise("'NoneType' object has no attribute 'get'")
        ELSE LET config == DictGet(entities, key)
             IN  IF OFFROAD \notin DOMAIN config \/ UTIL \notin DOMAIN config
                 THEN Raise("unsupported operand type(s) for /: 'NoneType' and 'int'")
                 ELSE Ok([off_road_vehicle_percentage |->
                              Div(config[OFFROAD], IntNum(PERCENT)),
                          station_utilization_percentage |->
                              Div(config[UTIL], IntNum(PERCENT))])

\* the body of the loop over df.iterrows(): one result row, or the exception
city_result(row, entities, cities, capacity, vehicle_specs) ==
    LET city == row["City"].v
        params == city_params(entities, cities, city)
    IN  IF ~params.ok THEN params
        ELSE LET off == params.val.off_road_vehicle_percentage
                 util == params.val.station_utilization_percentage
                 energy == calculate_city_energy_demand(row, vehicle_specs, off)
             IN  IF ~energy.ok THEN energy
                 ELSE LET stations_required == stations_quotient(energy.val, capacity, util)
                          total == total_vehicles(row)
                      IN  IF IsNaN(stations_required)   \* math.ceil in the log line
                          THEN Raise("cannot convert float NaN to integer")
                          ELSE Ok([City |-> city,
                                   vehicles |-> row,
                                   total_vehicles |-> total,
                                   operational_vehicles |-> Mul(total, Sub(One, off)),
                                   energy_required |-> PyRound(energy.val, 2),
                                   swappable_energy_per_station |-> capacity,
                                   stations_required |-> stations_result(stations_required)])

\* mutant: the key "all" anywhere in the map selects every location
city_list_all_wins(entities) ==
    IF entities = EmptyDict \/ DictHas(entities, "all") THEN ALL ELSE DictKeys(entities)

\* cities = list(entities.keys()) if entities else ['all']
\* (entities is a dict here; None takes the same branch as the empty dict)
city_list(entities) ==
    IF entities = EmptyDict THEN ALL ELSE DictKeys(entities)

calculate_stations_required(sh, entities) ==
    LET cities == city_list(entities)
        df == get_vehicle_data_from_sheets(sh, cities)
    IN  IF ~df.ok THEN df
        ELSE LET ref == get_swappable_energy_per_station_and_vehicle_mix(sh)
             IN  IF ~ref.ok THEN ref
                 ELSE LET capacity == PyInt(ref.val.swapable_energy)
                      IN  IF ~capacity.ok THEN capacity
                          ELSE LET results == [i \in DOMAIN df.val |->
                                                  city_result(df.val[i], entities, cities,
                                                              capacity.val, ref.val.vehicle_specs)]
                               IN  IF \E i \in DOMAIN results : ~results[i].ok
                                   THEN results[CHOOSE i \in DOMAIN results :
                                                   /\ ~results[i].ok
                                                   /\ \A j \in 1..(i - 1) : results[j].ok]
                                   ELSE Ok([i \in DOMAIN results |-> results[i].val])

RECURSIVE breakdown(_)
\* city_breakdown[city] = row.to_dict(), in row order: a later row of the
\* same city replaces the earlier one
breakdown(rows) ==
    IF rows = <<>> THEN <<>>
    ELSE LET last == rows[Len(rows)]
         IN  (last.City :> last) @@ breakdown(SubSeq(rows, 1, Len(rows) - 1))

\* total_stations += stations, over every row of results_df
total_stations(rows) ==
    SumOver([i \in DOMAIN rows |-> rows[i].stations_required], DOMAIN rows)

\* mutant: a failure is reported inside an otherwise empty result
calculate_swap_stations_empty_result(entities, sh) ==
    LET results_df == calculate_stations_required(sh, entities)
    IN  IF ~results_df.ok
        THEN [error |-> results_df.err, city_breakdown |-> <<>>, total_stations_required |-> 0]
        ELSE [city_breakdown |-> breakdown(results_df.val),
              total_stations_required |-> Trunc(total_stations(results_df.val))]

calculate_swap_stations(entities, sh) ==
    LET results_df == calculate_stations_required(sh, entities)
    IN  IF ~results_df.ok THEN [error |-> results_df.err]
        ELSE LET total == total_stations(results_df.val)
             IN  IF IsNaN(total) THEN [error |-> "cannot convert float NaN to integer"]
                 ELSE [city_breakdown |-> breakdown(results_df.val),
                       total_stations_required |-> Trunc(total)]

(***************************************************************************)
(* app.py: oracle outputs and the pure parts of a turn                     *)
(***************************************************************************)
\* The text an oracle returns is JSON of an object, JSON of something that
\* is not an object, or no JSON at all.
JsonObject(obj) == [json |-> "object", obj |-> obj]
JsonArray == [json |-> "array", obj |-> <<>>]
JsonInvalid == [json |-> "invalid", obj |-> <<>>]
\* free prose, which no step parses
Prose == [json |-> "prose", obj |-> <<>>]

\* json.loads(text)
json_loads(raw) == IF raw.json = "invalid" THEN Raise("JSONDecodeError") ELSE Ok(raw)

\* json.loads(text).get(key, default)
loads_get(raw, key, default) ==
    LET parsed == json_loads(raw)
    IN  IF ~parsed.ok THEN parsed
        ELSE IF parsed.val.json # "object" THEN Raise("AttributeError")
        ELSE IF key \in DOMAIN parsed.val.obj THEN Ok(parsed.val.obj[key])
        ELSE Ok(default)

RECURSIVE entity_map_first_wins(_)
\* mutant: the first entity of a lowercased name is kept, not the last
entity_map_first_wins(locations) ==
    IF locations = <<>> THEN EmptyDict
    ELSE LET d == locations[Len(locations)]
             rest == entity_map_first_wins(SubSeq(locations, 1, Len(locations) - 1))
         IN  IF DictHas(rest, StrLower(d["name"])) THEN rest
             ELSE DictSet(rest, StrLower(d["name"]), [k \in DOMAIN d \ {"name"} |-> d[k]])

RECURSIVE entity_map(_)
\* {d["name"].lower(): {k: v for k, v in d.items() if k != "name"} for d in locations}
entity_map(locations) ==
    IF locations = <<>> THEN EmptyDict
    ELSE LET d == locations[Len(locations)]
         IN  DictSet(entity_map(SubSeq(locations, 1, Len(locations) - 1)),
                     StrLower(d["name"]),
                     [k \in DOMAIN d \ {"name"} |-> d[k]])

\* mutant: the off-road field is not validated
missing_fields_util_only(config) ==
    IF UTIL \notin DOMAIN config THEN <<"station utilization percentage">> ELSE <<>>

\* mutant: the fields are listed in the other order
missing_fields_reversed(config) ==
    (IF OFFROAD \notin DOMAIN config THEN <<"off road vehicle percentage">> ELSE <<>>)
    \o (IF UTIL \notin DOMAIN config THEN <<"station utilization percentage">> ELSE <<>>)

missing_fields(config) ==
    (IF UTIL \notin DOMAIN config THEN <<"station utilization percentage">> ELSE <<>>)
    \o (IF OFFROAD \notin DOMAIN config THEN <<"off road vehicle percentage">> ELSE <<>>)

RECURSIVE join(_, _)
\* sep.join(parts)
join(sep, parts) ==
    IF parts = <<>> THEN ""
    ELSE IF Len(parts) = 1 THEN parts[1]
    ELSE parts[1] \o sep \o join(sep, Tail(parts))

missing_message(city, fields) ==
    "Please provide " \o join(" and ", fields) \o " for '" \o city \o "'."

RECURSIVE missing_info_messages(_)
\* one message for each entry of the entity map with a missing field, in dict order
missing_info_messages(entities) ==
    IF entities = <<>> THEN <<>>
    ELSE LET fields == missing_fields(entities[1].v)
         IN  (IF fields # <<>> THEN <<missing_message(entities[1].k, fields)>> ELSE <<>>)
             \o missing_info_messages(Tail(entities))

SHEET_URL == "SHEET_URL"
MISSING_INTRO == "I need some more information to proceed with the calculation. Please provide the following details for each location:"
FALLBACK == "I'm not sure how to assist with that. Please ask about battery swap stations or related services."
REVIEW == "Please review the vehicle data and underlying assumptions using the provided [Google Sheet]("
          \o SHEET_URL
          \o "). Once you've verified and updated it with the latest information, let me know so I can proceed with the next steps. Thanks!"

missing_response(msgs) == MISSING_INTRO \o "\n\n" \o join("\n", msgs)

UserMessage(content) == [role |-> "user", content |-> content]
AssistantMessage(content) == [role |-> "assistant", content |-> content]
DataMessage(content, data) == [role |-> "assistant", content |-> content, data |-> data]

\* display_calculation_results: only a payload with city_breakdown is stored
displayed(payload, previous) ==
    IF "city_breakdown" \in DOMAIN payload THEN payload ELSE previous

(***************************************************************************)
(* Bounds and the inputs drawn from them                                   *)
(***************************************************************************)
MaxTurns == 2       \* turns of one session
MaxEntities == 2    \* locations in one answer of the entity oracle
MaxRows == 2        \* data rows of the fleet worksheet
MaxKeys == 2        \* entries of an entity map handed to the engine directly

\* all sequences over S of length at most n
RECURSIVE SeqsUpTo(_, _)
SeqsUpTo(S, n) ==
    IF n = 0 THEN {<<>>}
    ELSE LET shorter == SeqsUpTo(S, n - 1)
         IN  shorter \cup {Append(q, x) : q \in shorter, x \in S}

Config(util, off) == (UTIL :> IntNum(util)) @@ (OFFROAD :> IntNum(off))

\* --- the oracles
IntentTexts ==
    {JsonObject("intent" :> v) :
        v \in {"greeting", "calculate_stations", "negative_feedback", "irrelevant", "chitchat"}}
    \cup {JsonObject(<<>>), JsonArray, JsonInvalid}

Location(name, config) == ("name" :> name) @@ config
OracleLocations ==
    { Location("Delhi", OFFROAD :> IntNum(20)),
      Location("Delhi", Config(80, 20)),
      Location("delhi", UTIL :> IntNum(80)),
      Location("delhi", Config(75, 0)),
      Location("pune", <<>>),
      Location("mumbai", Config(75, 15)),
      Location("mumbai", Config(150, 300)) }
EntityTexts ==
    {JsonObject("locations" :> locs) : locs \in SeqsUpTo(OracleLocations, MaxEntities)}
    \cup {JsonObject(<<>>), JsonArray, JsonInvalid}

ConfirmationTexts ==
    {JsonObject("confirmation_state" :> v) : v \in {"confirmed", "not_confirmed", "maybe"}}
    \cup {JsonObject(<<>>), JsonArray, JsonInvalid}

Prompts == {"prompt"}
ReplyTexts == {"reply"}
SummaryTexts == {"summary"}

\* --- the spreadsheet
FleetHeader == <<"City", "scooter", "car">>
FleetRows ==
    { <<"Delhi", IntCell(10), IntCell(5)>>,
      <<" Mumbai ", IntCell(25), TxtCell("")>>,
      <<"delhi", IntCell(15), IntCell(0)>>,
      <<"pune", TxtCell("n/a"), IntCell(3)>> }
Fleets == {<<FleetHeader>> \o rows : rows \in SeqsUpTo(FleetRows, MaxRows)}

MarkerRow == <<TxtCell(MARKER), TxtCell("Avg. km per day (km/day)"), TxtCell("Energy required per km (wh/km)")>>
TitleRow == <<TxtCell("Station assumptions"), TxtCell(""), TxtCell("")>>
BlankRow == <<TxtCell(""), TxtCell(""), TxtCell("")>>
ScooterRow == <<TxtCell("scooter"), IntCell(30), IntCell(20)>>
CarRow == <<TxtCell("car"), IntCell(100), DecCell(1505, 10)>>
BrokenCarRow == <<TxtCell("car"), TxtCell("tbd"), IntCell(150)>>
RefTables ==
    { <<TitleRow, MarkerRow, ScooterRow>>,
      <<TitleRow, MarkerRow, ScooterRow, BlankRow, CarRow>>,
      <<TitleRow, MarkerRow, ScooterRow, BrokenCarRow>>,
      <<MarkerRow, ScooterRow>>,
      <<TitleRow, ScooterRow>> }
CapacityCells == {IntCell(10), IntCell(0), IntCell(-10), TxtCell("")}

Sheet(reachable, fleet, h5, ref) ==
    [reachable |-> reachable, fleet |-> fleet, h5 |-> h5, ref |-> ref]

GoodSheet ==
    Sheet(TRUE,
          <<FleetHeader, <<"Delhi", IntCell(10), IntCell(5)>>, <<" Mumbai ", IntCell(25), TxtCell("")>> >>,
          IntCell(10),
          <<TitleRow, MarkerRow, ScooterRow>>)
DownSheet == [GoodSheet EXCEPT !.reachable = FALSE]

HeadlessSheet == [GoodSheet EXCEPT !.ref = <<MarkerRow, ScooterRow>>]
UnsizedSheet == [GoodSheet EXCEPT !.h5 = TxtCell("")]

\* the sheets a conversation may find: readable, unreachable, with the marker
\* in the first row of the vehicle mix table, and with an empty capacity cell
ConvSheets == {GoodSheet, DownSheet, HeadlessSheet, UnsizedSheet}

\* the sheets and entity maps the engine is applied to
TwoTypeRef == <<TitleRow, MarkerRow, ScooterRow, BlankRow, CarRow>>
TwinFleet == <<FleetHeader, <<"Delhi", IntCell(10), IntCell(5)>>, <<"delhi", IntCell(15), IntCell(0)>> >>
\* two fleets under every capacity cell and reference table
CoreSheets ==
    {Sheet(TRUE, f, c, r) : f \in {GoodSheet.fleet, TwinFleet}, c \in CapacityCells,
                            r \in RefTables}
    \cup {DownSheet}
CalcSheets ==
    {Sheet(TRUE, f, IntCell(10), r) : f \in Fleets, r \in {GoodSheet.ref, TwoTypeRef}}
    \cup CoreSheets
\* the end-to-end scenario of the specification
ScenarioSheet ==
    Sheet(TRUE,
          <<FleetHeader, <<"delhi", IntCell(100), IntCell(50)>>, <<"mumbai", IntCell(200), TxtCell("")>> >>,
          IntCell(1000),
          <<TitleRow, MarkerRow, ScooterRow>>)
ScenarioEntities ==
    <<[k |-> "delhi", v |-> Config(80, 20)], [k |-> "mumbai", v |-> Config(75, 15)]>>
CalcConfigs == {Config(80, 0), Config(80, 20), Config(0, 20), Config(-50, 0)}
CalcEntries == {[k |-> k, v |-> v] : k \in {"delhi", "mumbai", "all"}, v \in CalcConfigs}
CalcEntities ==
    {d \in SeqsUpTo(CalcEntries, MaxKeys) : \A i, j \in DOMAIN d : d[i].k = d[j].k => i = j}
\* every map with every core sheet, the maps below the largest size with
\* every sheet, and the scenario
CalcInputs ==
    (CalcEntities \X CoreSheets)
    \cup ({d \in CalcEntities : Len(d) < MaxKeys} \X CalcSheets)
    \cup {<<ScenarioEntities, ScenarioSheet>>}

(***************************************************************************)
(* The session and the turn script of app.py                               *)
(***************************************************************************)
NoPayload == [none |-> TRUE]
NoText == [call |-> "", text |-> Prose]
Returned(call, text) == [call |-> call, text |-> text]
Resting == {"idle", "done", "failed"}
\* what a turn finds in st.session_state
Session(msgs, results) == [messages |-> msgs, calculation_results |-> results]

\* config.AUTH_TOKENS and the tokens typed into the login form
AUTH_TOKENS == {"secret"}
LoginTokens == {"secret", "guess", ""}
NoToken == [none |-> TRUE]
Token(token) == [none |-> FALSE, token |-> token]
\* the authentication keys of st.session_state; auth_time is a key only
\* while a user is logged in
LoggedOut == [authenticated |-> FALSE, auth_token |-> NoToken]
LoggedIn(token) == [authenticated |-> TRUE, auth_token |-> Token(token), auth_time |-> "time"]
check_authentication == auth.authenticated

Init ==
    /\ messages = <<>>
    /\ calculation_results = NoPayload
    /\ pc = "idle"
    /\ intent_response = ""
    /\ oracle_text = NoText
    /\ entity_response = EmptyDict
    /\ missing_info = <<>>
    /\ confirmation_state = ""
    /\ response = NoPayload
    /\ calls = <<>>
    /\ sheet = GoodSheet
    /\ turns = 0
    /\ turn_start = Session(<<>>, NoPayload)
    /\ auth = LoggedOut

\* auth.show_login_page: the login form is submitted with a token
Login ==
    /\ ~check_authentication
    /\ \E token \in LoginTokens :
         auth' = IF token # "" /\ token \in AUTH_TOKENS THEN LoggedIn(token) ELSE auth
    /\ UNCHANGED <<messages, calculation_results, pc, intent_response, oracle_text,
                   entity_response, missing_info, confirmation_state, response, calls,
                   sheet, turns, turn_start>>

\* auth.add_logout_button: logout() and st.rerun(), which ends the script run
\* and with it the locals of the last turn
Logout ==
    /\ check_authentication
    /\ pc \in Resting
    /\ auth' = [k \in DOMAIN auth \ {"auth_time"} |->
                  IF k = "authenticated" THEN FALSE ELSE NoToken]
    /\ pc' = "idle"
    /\ intent_response' = ""
    /\ oracle_text' = NoText
    /\ entity_response' = EmptyDict
    /\ missing_info' = <<>>
    /\ confirmation_state' = ""
    /\ response' = NoPayload
    /\ calls' = <<>>
    /\ UNCHANGED <<messages, calculation_results, sheet, turns, turn_start>>

\* ui.create_sidebar: the "New Chat" button
NewChat ==
    /\ check_authentication
    /\ pc \in Resting
    /\ UNCHANGED <<turn_start, auth>>
    /\ messages # <<>>
    /\ messages' = <<>>
    /\ calculation_results' = NoPayload
    /\ pc' = "idle"
    /\ UNCHANGED <<intent_response, oracle_text, entity_response, missing_info,
                   confirmation_state, response, calls, sheet, turns>>

\* mutant: the calls of the earlier turns are not forgotten
Prompt_keeps_calls ==
    /\ check_authentication
    /\ pc \in Resting
    /\ turns < MaxTurns
    /\ UNCHANGED auth
    /\ \E p \in Prompts : messages' = Append(messages, UserMessage(p))
    /\ pc' = "intent"
    /\ intent_response' = ""
    /\ oracle_text' = NoText
    /\ entity_response' = EmptyDict
    /\ missing_info' = <<>>
    /\ confirmation_state' = ""
    /\ response' = NoPayload
    /\ calls' = Append(calls, "intent")
    /\ turns' = turns + 1
    /\ turn_start' = Session(messages, calculation_results)
    /\ UNCHANGED <<calculation_results, sheet>>

\* st.chat_input returns a prompt: the user message is appended and the
\* intent oracle is called.
Prompt ==
    /\ check_authentication
    /\ pc \in Resting
    /\ turns < MaxTurns
    /\ UNCHANGED auth
    /\ \E p \in Prompts : messages' = Append(messages, UserMessage(p))
    /\ pc' = "intent"
    /\ intent_response' = ""
    /\ oracle_text' = NoText
    /\ entity_response' = EmptyDict
    /\ missing_info' = <<>>
    /\ confirmation_state' = ""
    /\ response' = NoPayload
    /\ calls' = <<"intent">>
    /\ turns' = turns + 1
    /\ turn_start' = Session(messages, calculation_results)
    /\ UNCHANGED <<calculation_results, sheet>>

\* The exception of a failed step leaves the script: the turn is over.
Abort ==
    /\ pc' = "failed"
    /\ UNCHANGED <<messages, calculation_results, intent_response, entity_response,
                   missing_info, confirmation_state, response, sheet, turns, calls>>

\* a branch that only appends an assistant message
Respond(content) ==
    /\ messages' = Append(messages, AssistantMessage(content))
    /\ pc' = "done"

\* The oracle call in flight raises (API error).
OracleRaises ==
    /\ pc \in {"intent", "entity", "confirm", "summary", "reply"}
    /\ UNCHANGED <<turn_start, auth>>
    /\ Abort
    /\ UNCHANGED oracle_text

\* app.py 151-156 and 213-231: the intent oracle answers
IntentReturns ==
    /\ pc = "intent"
    /\ UNCHANGED <<turn_start, auth>>
    /\ \E text \in IntentTexts :
         LET got == loads_get(text, "intent", "")
         IN  /\ oracle_text' = Returned("intent", text)
             /\ IF ~got.ok
                THEN Abort
                ELSE /\ intent_response' = got.val
                     /\ IF got.val = "calculate_stations"
                        THEN /\ pc' = "entity"
                             /\ calls' = Append(calls, "entity")
                             /\ UNCHANGED messages
                        ELSE IF got.val \in {"greeting", "negative_feedback", "irrelevant"}
                        THEN /\ pc' = "reply"
                             /\ calls' = Append(calls, got.val)
                             /\ UNCHANGED messages
                        ELSE /\ Respond(FALLBACK)
                             /\ UNCHANGED calls
                     /\ UNCHANGED <<calculation_results, entity_response, missing_info,
                                    confirmation_state, response, sheet, turns>>

\* app.py 213-227: the greeting / negative feedback / irrelevant oracle
\* answers in prose, which becomes the assistant message
ReplyReturns ==
    /\ pc = "reply"
    /\ UNCHANGED <<turn_start, auth>>
    /\ \E text \in ReplyTexts :
         /\ oracle_text' = Returned(intent_response, Prose)
         /\ Respond(text)
    /\ UNCHANGED <<calculation_results, intent_response, entity_response, missing_info,
                   confirmation_state, response, calls, sheet, turns>>

\* app.py 157-183: the entity oracle answers; validation of the entity map
EntityReturns ==
    /\ pc = "entity"
    /\ UNCHANGED <<turn_start, auth>>
    /\ \E text \in EntityTexts :
         LET got == loads_get(text, "locations", <<>>)
         IN  /\ oracle_text' = Returned("entity", text)
             /\ IF ~got.ok
                THEN Abort
                ELSE LET entities == entity_map(got.val)
                         msgs == missing_info_messages(entities)
                     IN  /\ entity_response' = entities
                         /\ missing_info' = msgs
                         /\ IF Len(msgs) > 0
                            THEN /\ Respond(missing_response(msgs))
                                 /\ UNCHANGED calls
                            ELSE /\ pc' = "confirm"
                                 /\ calls' = Append(calls, "confirm")
                                 /\ UNCHANGED messages
                         /\ UNCHANGED <<calculation_results, intent_response,
                                        confirmation_state, response, sheet, turns>>

\* app.py 187-211: the confirmation oracle answers; on "confirmed" the
\* calculation runs on the spreadsheet as it is then (the user edits it
\* between turns, and it may be unreachable) and the narration oracle is called
ConfirmReturns ==
    /\ pc = "confirm"
    /\ UNCHANGED <<turn_start, auth>>
    /\ \E text \in ConfirmationTexts :
         LET got == loads_get(text, "confirmation_state", "not_confirmed")
         IN  /\ oracle_text' = Returned("confirm", text)
             /\ IF ~got.ok
                THEN Abort
                ELSE /\ confirmation_state' = got.val
                     /\ IF got.val = "confirmed"
                        THEN /\ \E sh \in ConvSheets :
                                  /\ sheet' = sh
                                  /\ response' = calculate_swap_stations(entity_response, sh)
                             /\ calls' = calls \o <<"calculate", "summary">>
                             /\ pc' = "summary"
                             /\ UNCHANGED messages
                        ELSE /\ Respond(REVIEW)
                             /\ UNCHANGED <<response, calls, sheet>>
                     /\ UNCHANGED <<calculation_results, intent_response, entity_response,
                                    missing_info, turns>>

\* app.py 198-206: the narration oracle answers; the results are displayed
\* and the message is appended with the payload attached
SummaryReturns ==
    /\ pc = "summary"
    /\ UNCHANGED <<turn_start, auth>>
    /\ \E text \in SummaryTexts :
         /\ oracle_text' = Returned("summary", Prose)
         /\ messages' = Append(messages, DataMessage(text, response))
    /\ calculation_results' = displayed(response, calculation_results)
    /\ pc' = "done"
    /\ UNCHANGED <<intent_response, entity_response, missing_info, confirmation_state,
                   response, calls, sheet, turns>>

Next ==
    \/ Prompt
    \/ IntentReturns
    \/ ReplyReturns
    \/ EntityReturns
    \/ ConfirmReturns
    \/ SummaryReturns
    \/ OracleRaises
    \/ NewChat
    \/ Login
    \/ Logout

Spec == Init /\ [][Next]_vars

(***************************************************************************)
(* The engine applied to every sheet and entity map of the bounds          *)
(***************************************************************************)
InitCalc ==
    /\ messages = <<>>
    /\ calculation_results = NoPayload
    /\ pc = "call"
    /\ intent_response = ""
    /\ oracle_text = NoText
    /\ \E input \in CalcInputs :
         /\ entity_response = input[1]
         /\ sheet = input[2]
    /\ missing_info = <<>>
    /\ confirmation_state = ""
    /\ response = NoPayload
    /\ calls = <<>>
    /\ turns = 0
    /\ turn_start = Session(<<>>, NoPayload)
    /\ auth = LoggedOut

\* service.calculate_swap_stations(entities=..., sheet_url=SHEET_URL)
Calculate ==
    /\ pc = "call"
    /\ UNCHANGED <<turn_start, auth>>
    /\ response' = calculate_swap_stations(entity_response, sheet)
    /\ calls' = <<"calculate">>
    /\ pc' = "returned"
    /\ UNCHANGED <<messages, calculation_results, intent_response, oracle_text,
                   entity_response, missing_info, confirmation_state, sheet, turns>>

NextCalc == Calculate

SpecCalc == InitCalc /\ [][NextCalc]_vars

(***************************************************************************)
(* Properties of a turn                                                    *)
(***************************************************************************)
Complete(config) == UTIL \in DOMAIN config /\ OFFROAD \in DOMAIN config
Calculated == "calculate" \in Range(calls)
LastMessage == messages[Len(messages)]
\* the turn appended the user message and then exactly this assistant message
TurnAppended(message) ==
    /\ Len(messages) >= 2
    /\ LastMessage = message
    /\ messages[Len(messages) - 1].role = "user"
\* the locations the entity oracle returned, while its answer is the latest
Locations ==
    IF /\ oracle_text.call = "entity"
       /\ oracle_text.text.json = "object"
       /\ "locations" \in DOMAIN oracle_text.text.obj
    THEN oracle_text.text.obj["locations"]
    ELSE <<>>
\* the entity oracle's answer was parsed and validated
Validated == oracle_text.call = "entity" /\ pc \in {"confirm", "done"}

\* C1: the calculation is invoked only after the intent calculate_stations,
\* with both parameters for every location of the entity map, and after the
\* confirmation state confirmed; a turn whose confirmation state is
\* not_confirmed appends exactly one assistant message, the request to review
\* the sheet, without calculating and without result data.
C1_CalculationGated ==
    /\ Calculated =>
          /\ intent_response = "calculate_stations"
          /\ \A i \in DOMAIN entity_response : Complete(entity_response[i].v)
          /\ confirmation_state = "confirmed"
    /\ (pc = "done" /\ confirmation_state = "not_confirmed") =>
          /\ TurnAppended(AssistantMessage(REVIEW))
          /\ "data" \notin DOMAIN LastMessage
          /\ ~Calculated
          /\ response = NoPayload

\* C1 witness: a second turn ended not_confirmed after a first one calculated
C1_Witness ==
    /\ pc = "done"
    /\ confirmation_state = "not_confirmed"
    /\ LastMessage.content = REVIEW
    /\ \E i \in DOMAIN messages : "data" \in DOMAIN messages[i]

\* C2 as claimed: whenever some returned entity lacks a field, the turn asks
\* for the missing fields and calls neither the confirmation oracle nor the
\* calculation.
C2_AnyIncompleteEntityStops ==
    (Validated /\ \E i \in DOMAIN Locations : ~Complete(Locations[i])) =>
        /\ pc = "done"
        /\ "confirm" \notin Range(calls)
        /\ ~Calculated
        /\ missing_info # <<>>
        /\ TurnAppended(AssistantMessage(missing_response(missing_info)))

\* the entity that decides for its lowercased name: the last one returned
Deciding(i) ==
    \A j \in DOMAIN Locations :
        j > i => StrLower(Locations[j]["name"]) # StrLower(Locations[i]["name"])

\* C2 amended: the entities are keyed by lowercased name and the last one of
\* a name replaces the earlier ones; whenever the last entity of some name
\* lacks a field, the turn asks for the missing fields and calls neither the
\* confirmation oracle nor the calculation.
C2_IncompleteLocationStops ==
    (Validated /\ \E i \in DOMAIN Locations : Deciding(i) /\ ~Complete(Locations[i])) =>
        /\ pc = "done"
        /\ "confirm" \notin Range(calls)
        /\ ~Calculated
        /\ missing_info # <<>>
        /\ TurnAppended(AssistantMessage(missing_response(missing_info)))

\* C2 witness: two entities whose names differ only by case, the later one
\* incomplete, and the turn has asked for its fields
C2_Witness ==
    /\ pc = "done"
    /\ Len(Locations) = 2
    /\ Locations[1]["name"] # Locations[2]["name"]
    /\ StrLower(Locations[1]["name"]) = StrLower(Locations[2]["name"])
    /\ Complete(Locations[1])
    /\ ~Complete(Locations[2])
    /\ missing_info # <<>>

ExpectedMissingMessage(city, config) ==
    IF UTIL \notin DOMAIN config /\ OFFROAD \notin DOMAIN config
    THEN "Please provide station utilization percentage and off road vehicle percentage for '"
         \o city \o "'."
    ELSE IF UTIL \notin DOMAIN config
    THEN "Please provide station utilization percentage for '" \o city \o "'."
    ELSE "Please provide off road vehicle percentage for '" \o city \o "'."

IncompleteEntries == SelectSeq(entity_response, LAMBDA e : ~Complete(e.v))

\* C3: validation yields one message for each location of the entity map that
\* lacks a field, in map order, and none for a complete location; the message
\* names the missing fields, utilization first, joined with " and ".
C3_MissingMessages ==
    Validated =>
        /\ Len(missing_info) = Len(IncompleteEntries)
        /\ \A j \in DOMAIN missing_info :
              missing_info[j] = ExpectedMissingMessage(IncompleteEntries[j].k, IncompleteEntries[j].v)
        /\ entity_response = <<[k |-> "pune", v |-> <<>>]>> =>
              missing_info = <<"Please provide station utilization percentage and off road vehicle percentage for 'pune'.">>

\* C3 witness: a complete location and one with no parameters: one message
C3_Witness ==
    /\ Validated
    /\ Len(entity_response) = 2
    /\ \E i \in DOMAIN entity_response : Complete(entity_response[i].v)
    /\ missing_info = <<"Please provide station utilization percentage and off road vehicle percentage for 'pune'.">>

KnownIntents == {"greeting", "calculate_stations", "negative_feedback", "irrelevant"}
IsKnownIntent(text) ==
    /\ text.json = "object"
    /\ "intent" \in DOMAIN text.obj
    /\ text.obj["intent"] \in KnownIntents

\* C4 as claimed: an answer of the intent oracle that is not one of the four
\* intents, unparseable text included, ends the turn with the fallback
\* message appended, no further call and no error.
C4_UnknownIntentFallsBack ==
    (oracle_text.call = "intent" /\ ~IsKnownIntent(oracle_text.text)) =>
        /\ pc = "done"
        /\ TurnAppended(AssistantMessage(FALLBACK))
        /\ calls = <<"intent">>

IsConfirmationAnswer(text) ==
    /\ text.json = "object"
    /\ "confirmation_state" \in DOMAIN text.obj
    /\ text.obj["confirmation_state"] \in {"confirmed", "not_confirmed"}

\* C5 as claimed: an answer of the confirmation oracle that cannot be parsed
\* into confirmed or not_confirmed is treated as not_confirmed: the turn asks
\* to review and re-confirm, does not calculate and does not fail.
C5_UnparsedConfirmationDefaults ==
    (oracle_text.call = "confirm" /\ ~IsConfirmationAnswer(oracle_text.text)) =>
        /\ pc = "done"
        /\ TurnAppended(AssistantMessage(REVIEW))
        /\ ~Calculated

(***************************************************************************)
(* Properties of the calculation                                           *)
(***************************************************************************)
Failed(payload) == DOMAIN payload = {"error"}
Succeeded(payload) == DOMAIN payload = {"city_breakdown", "total_stations_required"}

\* C6: calculate_swap_stations returns where a loader or the sizing fails:
\* the payload is then {error} alone, with neither city_breakdown nor
\* total_stations_required; the confirmed turn goes on to the narration, ends
\* with exactly one assistant message appended (the payload attached), and
\* the next turn can start.
C6_FailureIsAPayload ==
    /\ pc = "summary" =>
          /\ Failed(response) \/ Succeeded(response)
          /\ ~calculate_stations_required(sheet, entity_response).ok => Failed(response)
          /\ ENABLED SummaryReturns
    /\ (pc = "done" /\ Calculated /\ "error" \in DOMAIN response) =>
          /\ Failed(response)
          /\ \E text \in SummaryTexts : TurnAppended(DataMessage(text, response))
          /\ turns < MaxTurns => ENABLED Prompt

\* C6 witness: a turn after one whose calculation failed has reached its own
\* failed calculation
C6_Witness ==
    /\ pc = "summary"
    /\ Failed(response)
    /\ \E i \in DOMAIN messages :
          "data" \in DOMAIN messages[i] /\ Failed(messages[i].data)

\* --- the inputs of the call, as the engine reads them
InCities == city_list(entity_response)
InFleet == get_vehicle_data_from_sheets(sheet, InCities)
InRef == get_swappable_energy_per_station_and_vehicle_mix(sheet)
InCapacity == PyInt(InRef.val.swapable_energy)
InputsLoad == InFleet.ok /\ InRef.ok /\ InCapacity.ok
RowParams(row) == city_params(entity_response, InCities, row["City"].v)
AllParams == LET rows == InFleet.val IN \A i \in DOMAIN rows : RowParams(rows[i]).ok
RowUtil(row) == RowParams(row).val.station_utilization_percentage
RowOff(row) == RowParams(row).val.off_road_vehicle_percentage
\* the row of the fleet that a key of city_breakdown stands for
RowOf(city) ==
    LET rows == InFleet.val
    IN  rows[CHOOSE i \in DOMAIN rows :
                /\ rows[i]["City"].v = city
                /\ \A j \in DOMAIN rows : j > i => rows[j]["City"].v # city]
\* energy demand of a row: over the vehicle types in both the row and the
\* spec table, count x (1 - offRoad) x km/day x Wh/km / 1000
EnergyDemand(row) ==
    LET specs == InRef.val.vehicle_specs
        on_road == Sub(One, RowOff(row))
        both == {vt \in DOMAIN specs : vt \in DOMAIN row}
    IN  SumOver([vt \in both |->
                    Div(Mul(Mul(Mul(row[vt].v, on_road), specs[vt].km), specs[vt].wh),
                        IntNum(1000))],
                both)
NoStation(row) == ~Positive(InCapacity.val) \/ ~Positive(RowUtil(row))
\* the real-valued stationsRequired of a row
Quotient(row) ==
    LET capacity == InCapacity.val
        util == RowUtil(row)
    IN  IF ~Positive(capacity) \/ ~Positive(util) THEN Zero
        ELSE Div(EnergyDemand(row), Mul(capacity, util))
Returned_OK == pc = "returned" /\ Succeeded(response)

\* C7: with a capacity <= 0 or a utilization <= 0 the stations_required of the
\* location is exactly 0 and the calculation does not fail on it; otherwise
\* it comes from energyDemand / (capacity x utilization).
C7_ZeroFallback ==
    /\ (pc = "returned" /\ InputsLoad /\ AllParams
          /\ LET rows == InFleet.val IN \A i \in DOMAIN rows : NoStation(rows[i]))
       => Succeeded(response)
    /\ Returned_OK =>
          \A city \in DOMAIN response.city_breakdown :
             LET row == RowOf(city)
                 got == response.city_breakdown[city].stations_required
             IN  IF NoStation(row) THEN got = Zero
                 ELSE got = PyRound(Div(EnergyDemand(row), Mul(InCapacity.val, RowUtil(row))), 0)

\* C7 witness: a result with a location of utilization <= 0 next to one sized
\* from a positive quotient
C7_Witness ==
    /\ Returned_OK
    /\ \E c1, c2 \in DOMAIN response.city_breakdown :
          /\ ~Positive(RowUtil(RowOf(c1)))
          /\ Positive(EnergyDemand(RowOf(c1)))
          /\ ~NoStation(RowOf(c2))
          /\ Positive(response.city_breakdown[c2].stations_required)

QuotientSum ==
    LET rows == InFleet.val
    IN  SumOver([i \in DOMAIN rows |-> Quotient(rows[i])], DOMAIN rows)
RoundedSum ==
    LET rows == InFleet.val
    IN  SumOver([i \in DOMAIN rows |-> IntNum(RoundHalfEven(Quotient(rows[i])))], DOMAIN rows)

\* C8 as claimed: total_stations_required is the truncation of the sum of the
\* real-valued quotients, which are not rounded before they are summed.
C8_TotalTruncatesRealSum ==
    Returned_OK => response.total_stations_required = Trunc(QuotientSum)

\* C8 amended: total_stations_required is the sum, over the computed rows, of
\* the quotients each rounded to the nearest integer (ties to even) before
\* summing; the final truncation changes nothing.
C8_TotalSumsRoundedValues ==
    Returned_OK => IntNum(response.total_stations_required) = RoundedSum

\* C8 witness: a result whose total differs from the truncated real sum
C8_Witness ==
    /\ Returned_OK
    /\ Len(InFleet.val) = 2
    /\ response.total_stations_required # Trunc(QuotientSum)

\* C9 as claimed: the stations_required returned for a location is the
\* real-valued quotient itself.
C9_ReturnsRealQuotient ==
    Returned_OK =>
        \A city \in DOMAIN response.city_breakdown :
            response.city_breakdown[city].stations_required = Quotient(RowOf(city))

\* C9 amended: the stations_required returned for a location is the quotient
\* rounded to the nearest whole number, ties to even (never the ceiling); in
\* the end-to-end scenario the energies are 48 and 102, the quotients 0.06
\* and 0.136, and the returned stations_required and the total are all 0.
C9_ReturnsRoundedQuotient ==
    /\ Returned_OK =>
          \A city \in DOMAIN response.city_breakdown :
              response.city_breakdown[city].stations_required
                  = IntNum(RoundHalfEven(Quotient(RowOf(city))))
    /\ (pc = "returned" /\ sheet = ScenarioSheet /\ entity_response = ScenarioEntities) =>
          /\ Succeeded(response)
          /\ Quotient(RowOf("delhi")) = Rat(6, 100)
          /\ Quotient(RowOf("mumbai")) = Rat(136, 1000)
          /\ response.city_breakdown["delhi"].energy_required = IntNum(48)
          /\ response.city_breakdown["mumbai"].energy_required = IntNum(102)
          /\ response.city_breakdown["delhi"].stations_required = Zero
          /\ response.city_breakdown["mumbai"].stations_required = Zero
          /\ response.total_stations_required = 0

\* C9 witness: a returned value below the ceiling of a fractional quotient
C9_Witness ==
    /\ Returned_OK
    /\ \E city \in DOMAIN response.city_breakdown :
          LET q == Quotient(RowOf(city))
          IN  /\ q.d > 1
              /\ response.city_breakdown[city].stations_required # q
              /\ response.city_breakdown[city].stations_required # IntNum(Ceil(q))

\* the sheet with one more fleet column, of a vehicle type no spec table has
WithTruckColumn(sh) ==
    [sh EXCEPT !.fleet =
        [i \in DOMAIN sh.fleet |->
            IF i = 1 THEN Append(sh.fleet[i], "truck") ELSE Append(sh.fleet[i], IntCell(7))]]

\* C10: the energy_required of a location is the sum, over the vehicle types
\* in both its fleet row and the spec table, of
\* count x (1 - offRoad) x km/day x Wh/km / 1000 (rounded to 2 places in the
\* result); a further fleet column of a type absent from the spec table
\* changes neither energy_required nor stations_required.
C10_EnergyOverSharedTypes ==
    pc = "returned" =>
        LET wider == calculate_swap_stations(entity_response, WithTruckColumn(sheet))
        IN  /\ Succeeded(wider) = Succeeded(response)
            /\ Succeeded(response) =>
                  /\ DOMAIN wider.city_breakdown = DOMAIN response.city_breakdown
                  /\ \A city \in DOMAIN response.city_breakdown :
                        LET got == response.city_breakdown[city]
                        IN  /\ got.energy_required = PyRound(EnergyDemand(RowOf(city)), 2)
                            /\ wider.city_breakdown[city].energy_required = got.energy_required
                            /\ wider.city_breakdown[city].stations_required = got.stations_required

\* C10 witness: a location with cars, a type the spec table lacks, and with
\* scooters, which it has, and a positive energy demand
C10_Witness ==
    /\ Returned_OK
    /\ \E city \in DOMAIN response.city_breakdown :
          /\ "car" \notin DOMAIN InRef.val.vehicle_specs
          /\ Positive(RowOf(city)["car"].v)
          /\ Positive(response.city_breakdown[city].energy_required)

\* C11: total_vehicles of a location is the sum of every numeric column of
\* its fleet row, the types without a spec included, and
\* operational_vehicles is total_vehicles x (1 - offRoad); with an off-road
\* fraction of 0 the two are equal.
C11_VehicleTotals ==
    Returned_OK =>
        \A city \in DOMAIN response.city_breakdown :
            LET row == RowOf(city)
                got == response.city_breakdown[city]
                columns == DOMAIN row \ {"City"}
            IN  /\ got.total_vehicles = SumOver([h \in columns |-> row[h].v], columns)
                /\ got.operational_vehicles = Mul(got.total_vehicles, Sub(One, RowOff(row)))
                /\ RowOff(row) = Zero => got.operational_vehicles = got.total_vehicles

\* C11 witness: a location with cars, which the spec table lacks, counted in
\* total_vehicles, and an off-road fraction of 0
C11_Witness ==
    /\ Returned_OK
    /\ \E city \in DOMAIN response.city_breakdown :
          LET row == RowOf(city)
              got == response.city_breakdown[city]
          IN  /\ "car" \notin DOMAIN InRef.val.vehicle_specs
              /\ Positive(row["car"].v)
              /\ got.total_vehicles = Add(row["scooter"].v, row["car"].v)
              /\ RowOff(row) = Zero
              /\ got.operational_vehicles = got.total_vehicles

\* the data rows of the fleet worksheet, City trimmed and lowercased
SheetCity(i) == StrLower(StrStrip(sheet.fleet[i + 1][1]))
DataRows == 1..(Len(sheet.fleet) - 1)
Matching == {i \in DataRows : SheetCity(i) \in Range(InCities)}
\* the rows returned are the rows ix of the sheet, in sheet order
ReturnsRows(ix) ==
    LET got == InFleet
    IN  /\ got.ok
        /\ Len(got.val) = Cardinality(ix)
        /\ \A k \in DOMAIN got.val :
              \E i \in ix :
                 /\ Cardinality({j \in ix : j < i}) = k - 1
                 /\ got.val[k]["City"].v = SheetCity(i)
                 /\ got.val[k]["scooter"].v = fillna(to_numeric(sheet.fleet[i + 1][2]), Zero)
                 /\ got.val[k]["car"].v = fillna(to_numeric(sheet.fleet[i + 1][3]), Zero)

\* C12: on a readable fleet worksheet the loader fails with fewer than two
\* rows; with the filter ['all'] it returns every data row; with any other
\* filter it returns, in sheet order, exactly the rows whose trimmed,
\* lowercased location is in the filter, and fails if and only if there is
\* none: a requested location without a row is dropped without error.
C12_FleetFilter ==
    (pc = "returned" /\ sheet.reachable) =>
        IF Len(sheet.fleet) < 2 THEN ~InFleet.ok
        ELSE IF InCities = <<"all">> THEN ReturnsRows(DataRows)
        ELSE /\ InFleet.ok <=> Matching # {}
             /\ Matching # {} => ReturnsRows(Matching)

\* C12 witness: a filter of two locations of which the sheet has only one,
\* on a sheet with a second row that is not asked for
C12_Witness ==
    /\ pc = "returned"
    /\ sheet.reachable
    /\ Len(InCities) = 2
    /\ Cardinality(Matching) = 1
    /\ Cardinality(DataRows) = 2
    /\ InFleet.ok
    /\ Len(InFleet.val) = 1

\* the entity map holds the key "all" / holds nothing else
HasAll == DictHas(entity_response, "all")
AllOnly == DictKeys(entity_response) = <<"all">>
\* the off-road fraction the entity map gives under a key
OffOf(key) == Div(DictGet(entity_response, key)[OFFROAD], IntNum(100))
UtilOf(key) == Div(DictGet(entity_response, key)[UTIL], IntNum(100))
\* the result row of a location was computed with the parameters of a key
ComputedWith(city, key) ==
    LET got == response.city_breakdown[city]
    IN  /\ got.operational_vehicles = Mul(got.total_vehicles, Sub(One, OffOf(key)))
        /\ got.stations_required =
              IF ~Positive(InCapacity.val) \/ ~Positive(UtilOf(key)) THEN Zero
              ELSE IntNum(RoundHalfEven(
                      Div(Mul(Mul(Mul(RowOf(city)["scooter"].v, Sub(One, OffOf(key))),
                                  IntNum(30)), IntNum(20)),
                          Mul(IntNum(1000), Mul(InCapacity.val, UtilOf(key))))))
\* the reference table with the scooter alone, 30 km/day and 20 Wh/km
ScooterOnly == sheet.ref = <<TitleRow, MarkerRow, ScooterRow>>

\* C13 as claimed: whenever the entity map has the key "all", also next to
\* other keys, the result is the one the parameters of "all" give for every
\* location of the fleet table.
C13_AllCoversFleet ==
    (pc = "returned" /\ HasAll) =>
        response = calculate_swap_stations(
                       <<[k |-> "all", v |-> DictGet(entity_response, "all")]>>, sheet)

\* C13 amended: when "all" is the only key of the entity map, every location
\* of the fleet table is in the result, computed with the parameters of
\* "all"; when the map has other keys besides "all", "all" is an ordinary
\* location name: the result holds the locations of the fleet table that are
\* keys of the map, each computed with the parameters of its own key, and
\* the calculation fails when there is none.
C13_AllAloneCoversFleet ==
    (pc = "returned" /\ HasAll /\ sheet.reachable /\ Len(sheet.fleet) >= 2
        /\ ScooterOnly /\ InCapacity.ok) =>
        IF AllOnly
        THEN /\ Succeeded(response)
             /\ DOMAIN response.city_breakdown = {SheetCity(i) : i \in DataRows}
             /\ \A city \in DOMAIN response.city_breakdown : ComputedWith(city, "all")
        ELSE IF Matching = {} THEN Failed(response)
        ELSE /\ Succeeded(response)
             /\ DOMAIN response.city_breakdown = {SheetCity(i) : i \in Matching}
             /\ \A city \in DOMAIN response.city_breakdown : ComputedWith(city, city)

\* C13 witness: a map with "all" and "delhi" on a sheet with delhi and
\* mumbai: the result has delhi alone, with the parameters given for delhi
C13_Witness ==
    /\ Returned_OK
    /\ ScooterOnly
    /\ DictKeys(entity_response) = <<"all", "delhi">>
    /\ DictGet(entity_response, "all") # DictGet(entity_response, "delhi")
    /\ {SheetCity(i) : i \in DataRows} = {"delhi", "mumbai"}
    /\ DOMAIN response.city_breakdown = {"delhi"}
    /\ Positive(response.city_breakdown["delhi"].stations_required)

\* a row of the reference table whose distance or energy cell is not a number
UnparsedSpec(row) == row[1] # TxtCell("") /\ (row[2].t = "txt" \/ row[3].t = "txt")
MarkerAt == CHOOSE i \in DOMAIN sheet.ref :
                HasMarker(sheet.ref[i]) /\ \A j \in 1..(i - 1) : ~HasMarker(sheet.ref[j])
SomeMarker == \E i \in DOMAIN sheet.ref : HasMarker(sheet.ref[i])
\* the sheet without the vehicle types whose spec cells cannot be parsed
WithoutUnparsedSpecs ==
    [sheet EXCEPT !.ref =
        [i \in DOMAIN sheet.ref |->
            IF i > MarkerAt /\ UnparsedSpec(sheet.ref[i]) THEN BlankRow ELSE sheet.ref[i]]]

\* C14 as claimed: a vehicle type whose distance or energy cell cannot be
\* parsed counts as absent: the calculation returns what it returns for the
\* reference table without that type.
C14_UnparsedSpecIsAbsent ==
    (pc = "returned" /\ sheet.reachable /\ SomeMarker) =>
        response = calculate_swap_stations(entity_response, WithoutUnparsedSpecs)

\* C15 as claimed: with the marker in some row of the reference worksheet,
\* the first row included, the loader succeeds and the vehicle specs are the
\* rows after the first marker row with a non-empty first column, keyed by
\* it; the loader fails only on an unreachable sheet or without a marker.
C15_MarkerInAnyRow ==
    pc = "returned" =>
        /\ InRef.ok <=> (sheet.reachable /\ SomeMarker)
        /\ InRef.ok =>
              DOMAIN InRef.val.vehicle_specs =
                  {sheet.ref[j][1].v : j \in {i \in DOMAIN sheet.ref :
                                                 i > MarkerAt /\ sheet.ref[i][1] # TxtCell("")}}

\* C16 as claimed: with a capacity cell that is zero or not a number, the
\* calculation succeeds wherever it succeeds for a capacity of zero, with a
\* stations_required of 0 for every location.
C16_UnparsedCapacityFallsBack ==
    (pc = "returned" /\ (sheet.h5 = IntCell(0) \/ sheet.h5.t = "txt")
        /\ Succeeded(calculate_swap_stations(entity_response, [sheet EXCEPT !.h5 = IntCell(0)]))) =>
        /\ Succeeded(response)
        /\ \A city \in DOMAIN response.city_breakdown :
              response.city_breakdown[city].stations_required = Zero

\* C17 as claimed: a turn that fails leaves the history and the last result
\* as the turn found them; a turn that completes has appended the user
\* message and one assistant message to the history it found.
C17_TurnIsAtomic ==
    /\ pc = "failed" =>
          /\ messages = turn_start.messages
          /\ calculation_results = turn_start.calculation_results
    /\ pc = "done" =>
          /\ Len(messages) = Len(turn_start.messages) + 2
          /\ SubSeq(messages, 1, Len(turn_start.messages)) = turn_start.messages
          /\ messages[Len(messages) - 1].role = "user"
          /\ messages[Len(messages)].role = "assistant"

Leq(x, y) == ~IsNaN(x) /\ ~IsNaN(y) /\ x.n * y.d <= y.n * x.d
\* C18 as claimed: a calculation runs only with, for every location, a
\* utilization in (0, 1] and an off-road fraction in [0, 1], and no
\* successful result holds a negative energy_required, operational_vehicles
\* or stations_required.
C18_ParametersInRange ==
    Calculated =>
        /\ \A i \in DOMAIN entity_response :
              LET util == Div(entity_response[i].v[UTIL], IntNum(100))
                  off == Div(entity_response[i].v[OFFROAD], IntNum(100))
              IN  /\ Positive(util) /\ Leq(util, One)
                  /\ Leq(Zero, off) /\ Leq(off, One)
        /\ Succeeded(response) =>
              \A city \in DOMAIN response.city_breakdown :
                  LET got == response.city_breakdown[city]
                  IN  /\ Leq(Zero, got.energy_required)
                      /\ Leq(Zero, got.operational_vehicles)
                      /\ Leq(Zero, got.stations_required)

CallOrder == <<"intent", "entity", "confirm", "calculate", "summary">>
ReplyIntents == {"greeting", "negative_feedback", "irrelevant"}
\* C19: the calls of a turn are a prefix of intent, entity extraction,
\* confirmation, calculation, narration, each at most once and each after
\* the enabling outcome of the one before (calculate_stations, nothing
\* missing, confirmed); a greeting, negative_feedback or irrelevant turn
\* makes exactly one response call after the intent call and none of the
\* others.
C19_CallOrder ==
    /\ \/ calls = SubSeq(CallOrder, 1, Len(calls))
       \/ /\ Len(calls) = 2
          /\ calls[1] = "intent"
          /\ calls[2] \in ReplyIntents
          /\ calls[2] = intent_response
    /\ pc \notin Resting =>
          calls[Len(calls)] = (IF pc = "reply" THEN intent_response ELSE pc)
    /\ "entity" \in Range(calls) => intent_response = "calculate_stations"
    /\ "confirm" \in Range(calls) =>
          /\ missing_info = <<>>
          /\ \A i \in DOMAIN entity_response : Complete(entity_response[i].v)
    /\ Calculated =>
          /\ confirmation_state = "confirmed"
          /\ calls[Len(calls)] = "summary"
    /\ (pc = "done" /\ intent_response \in ReplyIntents) =>
          calls = <<"intent", intent_response>>
    /\ (pc = "done" /\ "data" \in DOMAIN LastMessage) => calls = CallOrder

\* C19 witness: a second turn that went through all five calls after a
\* first turn that made a response call
C19_Witness ==
    /\ pc = "done"
    /\ turns = 2
    /\ calls = CallOrder
    /\ Len(messages) = 4
    /\ "data" \notin DOMAIN messages[2]

\* C20 as claimed: with an empty entity map the city list is ['all'] and the
\* calculation succeeds with every location of the fleet table.
C20_EmptyMapCoversFleet ==
    (pc = "returned" /\ entity_response = EmptyDict /\ sheet.reachable
        /\ Len(sheet.fleet) >= 2 /\ ScooterOnly /\ InCapacity.ok) =>
        /\ InCities = <<"all">>
        /\ Succeeded(response)
        /\ DOMAIN response.city_breakdown = {SheetCity(i) : i \in DataRows}

\* C21 as claimed: a session that is logged out holds authenticated = False,
\* auth_token = None and no auth_time, holds neither the conversation history
\* nor the last calculation result of the user who logged out, and runs no
\* turn.
C21_LogoutClearsSession ==
    ~auth.authenticated =>
        /\ auth.auth_token = NoToken
        /\ "auth_time" \notin DOMAIN auth
        /\ messages = <<>>
        /\ calculation_results = NoPayload
        /\ pc = "idle"

\* C22 as claimed: in a successful result total_stations_required is the
\* truncated sum of the stations_required of the entries of city_breakdown,
\* and city_breakdown has one entry for each computed fleet row, also when
\* two rows normalize to the same location name.
C22_TotalMatchesBreakdown ==
    Returned_OK =>
        LET entries == response.city_breakdown
        IN  /\ response.total_stations_required =
                  Trunc(SumOver([city \in DOMAIN entries |-> entries[city].stations_required],
                                DOMAIN entries))
            /\ Cardinality(DOMAIN entries) = Len(InFleet.val)

====
